---- MODULE Spec2Model ----
(***************************************************************************)
(* Model of stellarphot's table classes (src/stellarphot/core.py):         *)
(* Camera, BaseEnhancedTable, PhotometryData and CatalogData.              *)
(*                                                                         *)
(* One construction call is modelled as a sequence of steps, one per       *)
(* block of the constructor, driven by the program counter pc.  The call's *)
(* arguments are drawn in Init.  Objects that the caller keeps a reference *)
(* to (the camera, the observatory, the input table) live in heaps so that *)
(* aliasing between the caller's object and the table's attribute is       *)
(* something the model can get wrong.                                      *)
(*                                                                         *)
(* Numbers: Python floats are modelled in fixed point.  Magnitudes and     *)
(* areas are in units of 1e-6, snr in units of 1e-3, the bjd in            *)
(* milliseconds, times in whole hours.                                     *)
(*                                                                         *)
(* The later sections model further parts of the package, each with a      *)
(* specification of its own: Camera.__init__ on arbitrary arguments        *)
(* (SpecCamera), a call repeated on its own result (SpecRevalidate), the   *)
(* night counter (SpecNight), and, from                                    *)
(* src/stellarphot/gui_tools/seeing_profile_functions.py, find_center      *)
(* (SpecCenter), RadialProfile.find_hwhm (SpecHwhm), a click on the        *)
(* SeeingProfileWidget (SpecWidget) and radial_profile with the net counts *)
(* (SpecProfile).  While one part runs the variables of the others rest.   *)
(***************************************************************************)
EXTENDS Integers, Sequences, FiniteSets, TLC

VARIABLES
    pc,                 \* position in the constructor
    err,                \* the exception raised, NoErr while none
    steps,              \* history: the steps executed so far, in order
    reads,              \* computed column -> what its computation read
    args,               \* the call's arguments, as passed (values at call time)
    data,               \* the caller's input table object
    orig_data,          \* CatalogData._orig_data
    self_built,         \* QTable.__init__ has run on self
    self_tab,           \* the columns of self
    self_camera,        \* self.camera: reference into cameras
    self_observatory,   \* self.observatory: reference into observatories
    self_passband_map,  \* self._passband_map
    cameras,            \* heap of Camera objects
    observatories,      \* heap of EarthLocation objects
    nmut,               \* number of mutations the caller made after the call
    ci,                 \* index into computed_columns of the loop at line 313
    shared,             \* the objects whose columns are the caller's own
    round,              \* 1: the call; 2: the call repeated on its result
    first_tab,          \* the table the first call produced
    cam_call,           \* one call of Camera.__init__
    night,              \* the night counter of two observations
    fc,                 \* one call of find_center
    hw,                 \* one call of RadialProfile.find_hwhm
    widget,             \* the SeeingProfileWidget
    rp                  \* one call of radial_profile

vars == <<pc, err, steps, reads, args, data, orig_data, self_built, self_tab,
          self_camera, self_observatory, self_passband_map, cameras,
          observatories, nmut, ci, shared, round, first_tab, cam_call, night, fc,
          hw, widget, rp>>

\* the variables of the table classes' constructors
table_vars == <<pc, err, steps, reads, args, data, orig_data, self_built,
                self_tab, self_camera, self_observatory, self_passband_map,
                cameras, observatories, nmut, ci, shared, round, first_tab>>

\* the variables a construction call never touches
others == <<round, first_tab, cam_call, night, fc, hw, widget, rp>>

\* a part of the program that is not running
Idle == [pc |-> "idle"]

-----------------------------------------------------------------------------
(* Bounds of the model *)

\* columns of the description that deviate (dropped or unit changed) per input
MaxFaults == 1
\* mutations of the caller's objects after construction
MaxMutations == 1

-----------------------------------------------------------------------------
(* Python values *)

None == "None"

\* an optional dict: None, or the (key, value) pairs in insertion order
NoneMap == [isNone |-> TRUE, items |-> <<>>]
DictOf(items) == [isNone |-> FALSE, items |-> items]

NoErr == [type |-> "", kind |-> "", col |-> "", expected |-> "", actual |-> "",
          origin |-> ""]
Raise(type, kind, col, expected, actual, origin) ==
    [type |-> type, kind |-> kind, col |-> col, expected |-> expected,
     actual |-> actual, origin |-> origin]

\* a table: the unit and the cell values of every column it has, and the
\* time scale of its date-obs column ("none": not a column of Time entries)
EmptyTable == [unit |-> [c \in {} |-> None], val |-> [c \in {} |-> <<>>],
               timescale |-> "none"]
ColNames(t) == DOMAIN t.unit
NRows(t) == IF ColNames(t) = {} THEN 0
            ELSE Len(t.val[CHOOSE c \in ColNames(t) : TRUE])

\* table t with column c set to (unit u, values v): self[c] = ...
SetColumn(t, c, u, v) ==
    [t EXCEPT !.unit = [x \in ColNames(t) \cup {c} |->
                            IF x = c THEN u ELSE t.unit[x]],
              !.val  = [x \in ColNames(t) \cup {c} |->
                            IF x = c THEN v ELSE t.val[x]]]

\* table t without column c
DropColumn(t, c) ==
    [t EXCEPT !.unit = [x \in ColNames(t) \ {c} |-> t.unit[x]],
              !.val  = [x \in ColNames(t) \ {c} |-> t.val[x]]]

\* Table.rename_column(old, new) on a table that has old and not new
RenameColumn(t, old, new) ==
    [t EXCEPT !.unit = [x \in (ColNames(t) \ {old}) \cup {new} |->
                            IF x = new THEN t.unit[old] ELSE t.unit[x]],
              !.val  = [x \in (ColNames(t) \ {old}) \cup {new} |->
                            IF x = new THEN t.val[old] ELSE t.val[x]]]

Range(s) == {s[i] : i \in 1..Len(s)}
Keys(descr) == {descr[i][1] : i \in 1..Len(descr)}

-----------------------------------------------------------------------------
(* Camera *)

\* Camera.__init__ on quantities: gain, read_noise, dark_current
Camera(gain, read_noise, dark_current) ==
    [gain |-> gain, read_noise |-> read_noise, dark_current |-> dark_current]

\* a mutant of Camera_copy: the same object is handed back
Camera_copy_Alias(heap, ref) == [heap |-> heap, ref |-> ref]

\* Camera.copy: a new Camera object built from the attributes of this one
Camera_copy(heap, ref) ==
    LET new == Len(heap) + 1
    IN  [heap |-> Append(heap, Camera(heap[ref].gain, heap[ref].read_noise,
                                      heap[ref].dark_current)),
         ref |-> new]

\* EarthLocation.copy (astropy): a new array with the same coordinates
EarthLocation_copy(heap, ref) ==
    [heap |-> Append(heap, heap[ref]), ref |-> Len(heap) + 1]

-----------------------------------------------------------------------------
(* Table descriptions *)

phot_descript ==
    << <<"star_id", None>>, <<"ra", "deg">>, <<"dec", "deg">>,
       <<"xcenter", "pix">>, <<"ycenter", "pix">>, <<"fwhm_x", "pix">>,
       <<"fwhm_y", "pix">>, <<"width", "pix">>, <<"aperture", "pix">>,
       <<"annulus_inner", "pix">>, <<"annulus_outer", "pix">>,
       <<"aperture_sum", None>>, <<"annulus_sum", None>>,
       <<"sky_per_pix_avg", None>>, <<"sky_per_pix_med", None>>,
       <<"sky_per_pix_std", None>>, <<"aperture_net_cnts", None>>,
       <<"noise", None>>, <<"exposure", "s">>, <<"date-obs", None>>,
       <<"airmass", None>>, <<"passband", None>>, <<"file", None>> >>

catalog_descript ==
    << <<"id", None>>, <<"ra", "deg">>, <<"dec", "deg">>, <<"mag", None>>,
       <<"passband", None>> >>

counts_columns ==
    <<"aperture_sum", "annulus_sum", "sky_per_pix_avg", "sky_per_pix_med",
      "sky_per_pix_std", "aperture_net_cnts", "noise">>

\* a mutant of computed_columns: mag_error is declared before snr
computed_columns_MagErrorFirst ==
    <<"aperture_area", "annulus_area", "mag_error", "bjd", "night",
      "mag_inst", "snr">>

computed_columns ==
    <<"aperture_area", "annulus_area", "snr", "bjd", "night", "mag_inst",
      "mag_error">>

Descript(cls) == IF cls = "PhotometryData" THEN phot_descript
                 ELSE catalog_descript

-----------------------------------------------------------------------------
(* Arithmetic of the computed columns, in fixed point *)

\* numpy.sqrt on the gains the inputs use (perfect squares)
ISqrt(x) == CHOOSE r \in 0..x : r * r = x

\* numpy.log10 on the arguments the inputs produce (powers of ten)
RECURSIVE ILog10(_)
ILog10(x) == IF x < 10 THEN 0 ELSE 1 + ILog10(x \div 10)

\* Python int(a / b): truncation toward zero
TruncDiv(a, b) == IF a >= 0 THEN a \div b ELSE -((-a) \div b)

\* numpy.pi in units of 1e-6
PiMicro == 3141593

\* 1.085736205 in units of 1e-9
MagErrNano == 1085736205

\* -2.5 in units of 1e-6
MagInstCoeffMicro == -2500000

\* the seconds of light travel time astropy computes for a target and a place
LightTravelMs(ra, dec, place) == ((ra + dec + place.lat + place.lon) % 500) * 1000

\* PhotometryData.add_bjd_col, one row: start time in TDB plus light travel
\* time plus half the exposure, in milliseconds
BjdOfRow(tab, place, i) ==
    tab.val["date-obs"][i] * 3600000
    + LightTravelMs(tab.val["ra"][i], tab.val["dec"][i], place)
    + (tab.val["exposure"][i] * 1000) \div 2

\* a mutant of NightOf: the hours before noon are not carried back to the
\* noon of the day before
NightOf_NoWrap(t, lon) ==
    LET hr_offset == TruncDiv(lon, 15)
        LocalTime == t + 60 * hr_offset
        hr        == (LocalTime \div 60) % 24
        minute    == LocalTime % 60
        shift_hr  == IF hr < 12 THEN hr ELSE hr - 12
        delta     == 0 - shift_hr * 60 - minute
    IN  TruncDiv(t + delta, 1440)

\* hr_offset = int(lon / 15), line 343, with the floor taken instead
HrOffset_Floor(lon) == lon \div 15

\* hr_offset = int(self.observatory.lon.value/15), line 343: int() drops the
\* fraction, towards zero
HrOffset(lon) == TruncDiv(lon, 15)

\* the case 'night' of the constructor, lines 339-359, for one observation:
\* t is date-obs in minutes of UTC since MJD 0, lon the longitude in degrees
NightOf(t, lon) ==
    LET hr_offset == HrOffset(lon)
        LocalTime == t + 60 * hr_offset
        hr        == (LocalTime \div 60) % 24
        minute    == LocalTime % 60
        shift_hr  == IF hr < 12 THEN hr + 12 ELSE hr - 12
        delta     == 0 - shift_hr * 60 - minute
    IN  TruncDiv(t + delta, 1440)

\* the night counter of one row (date-obs of the table is in whole hours)
NightOfRow(tab, place, i) == NightOf(tab.val["date-obs"][i] * 60, place.lon)

\* what the case of computed column c reads: columns of self, and attributes
\* (the names with a dot)
ReadsOf(c) ==
    CASE c = "aperture_area" -> {"aperture"}
      [] c = "annulus_area"  -> {"annulus_outer", "annulus_inner"}
      [] c = "snr"           -> {"camera.gain", "aperture_net_cnts", "noise"}
      [] c = "bjd"           -> {"observatory.lat", "observatory.lon", "date-obs",
                                 "ra", "dec", "exposure"}
      [] c = "night"         -> {"observatory.lon", "date-obs"}
      [] c = "mag_inst"      -> {"camera.gain", "aperture_net_cnts", "exposure"}
      [] c = "mag_error"     -> {"snr"}
      [] OTHER               -> {}

Attributes == {"camera.gain", "observatory.lat", "observatory.lon"}

\* the column the case of computed column c assigns to
WrittenBy(c) == IF c = "mag_error" THEN "mag_inst" ELSE c

\* the unit and the values the case of computed column c assigns
ValuesOf(c, tab, cam, place) ==
    LET n == NRows(tab)
        v == tab.val
    IN  CASE c = "aperture_area" ->
               [unit |-> "pix2",
                val  |-> [i \in 1..n |-> PiMicro * v["aperture"][i] * v["aperture"][i]]]
          [] c = "annulus_area" ->
               [unit |-> "pix2",
                val  |-> [i \in 1..n |->
                            PiMicro * (v["annulus_outer"][i] * v["annulus_outer"][i]
                                       - v["annulus_inner"][i] * v["annulus_inner"][i])]]
          [] c = "snr" ->
               [unit |-> None,
                val  |-> [i \in 1..n |->
                            (ISqrt(cam.gain) * v["aperture_net_cnts"][i] * 1000)
                                \div v["noise"][i]]]
          [] c = "bjd" ->
               [unit |-> None, val |-> [i \in 1..n |-> BjdOfRow(tab, place, i)]]
          [] c = "night" ->
               [unit |-> None, val |-> [i \in 1..n |-> NightOfRow(tab, place, i)]]
          [] c = "mag_inst" ->
               [unit |-> None,
                val  |-> [i \in 1..n |->
                            MagInstCoeffMicro
                            * ILog10((cam.gain * v["aperture_net_cnts"][i])
                                         \div v["exposure"][i])]]
          [] c = "mag_error" ->
               [unit |-> None,
                val  |-> [i \in 1..n |-> MagErrNano \div v["snr"][i]]]

-----------------------------------------------------------------------------
(* BaseEnhancedTable.__init__ *)

\* a mutant of UnitsDiffer: units of the same physical type are accepted
UnitsDiffer_Convertible(actual, declared) ==
    LET PhysicalType(u) == CASE u \in {"deg", "arcsec"} -> "angle"
                             [] u \in {"s", "min"}      -> "time"
                             [] OTHER                   -> u
    IN  PhysicalType(actual) # PhysicalType(declared)

\* data[this_col].unit != this_unit
UnitsDiffer(actual, declared) == actual # declared

\* the loop over the table description, from its i-th item on: the error it
\* raises, NoErr when it raises none
RECURSIVE CheckDescription(_, _, _)
CheckDescription(descr, t, i) ==
    IF i > Len(descr) THEN NoErr
    ELSE LET this_col  == descr[i][1]
             this_unit == descr[i][2]
         IN  IF this_unit = None THEN CheckDescription(descr, t, i + 1)
             ELSE IF this_col \notin ColNames(t)
                  THEN Raise("ValueError", "missing", this_col, "", "",
                             "BaseEnhancedTable")
             ELSE IF UnitsDiffer(t.unit[this_col], this_unit)
                  THEN Raise("ValueError", "wrong_unit", this_col, this_unit,
                             t.unit[this_col], "BaseEnhancedTable")
             ELSE CheckDescription(descr, t, i + 1)

\* a table made from table t that shares its columns with t
Table_copy_Alias(t) == [tab |-> t, shares |-> TRUE]

\* a copy of table t that holds its times as plain values
Table_copy_PlainTime(t) ==
    [tab |-> [t EXCEPT !.timescale = "none"], shares |-> FALSE]

\* Table.copy(), and QTable.__init__(data=t) with its default copy=True: a
\* new table with columns of its own
Table_copy(t) == [tab |-> t, shares |-> FALSE]

\* BaseEnhancedTable.__init__(table_description, data): the error raised and
\* the table built (a copy of data, made by QTable.__init__)
BaseEnhancedTable_init(descr, t) ==
    LET e == CheckDescription(descr, t, 1)
        c == Table_copy(t)
    IN  [err |-> e, built |-> (e = NoErr),
         tab |-> IF e = NoErr THEN c.tab ELSE EmptyTable,
         shares |-> (e = NoErr) /\ c.shares]

\* table t after an assignment into the cells of the passband column that it
\* shares with table written
WriteThrough(t, written) ==
    IF "passband" \in ColNames(t) /\ "passband" \in ColNames(written)
    THEN [t EXCEPT !.val["passband"] = written.val["passband"]]
    ELSE t

-----------------------------------------------------------------------------
(* update_passbands and update_colnames *)

\* the loop of update_passbands from the i-th item of the map on, applied to
\* the values of the passband column
RECURSIVE ApplyPassbandMap(_, _, _)
ApplyPassbandMap(items, vals, i) ==
    IF i > Len(items) THEN vals
    ELSE ApplyPassbandMap(items,
                          [r \in 1..Len(vals) |->
                              IF vals[r] = items[i][1] THEN items[i][2]
                              ELSE vals[r]],
                          i + 1)

\* update_passbands on table tab with the map pbmap (a dict)
update_passbands(tab, pbmap, origin) ==
    IF Len(pbmap.items) = 0 THEN [err |-> NoErr, tab |-> tab]
    ELSE IF "passband" \notin ColNames(tab)
         THEN [err |-> Raise("KeyError", "key", "passband", "", "", origin),
               tab |-> tab]
    ELSE [err |-> NoErr,
          tab |-> [tab EXCEPT !.val["passband"] =
                       ApplyPassbandMap(pbmap.items, tab.val["passband"], 1)]]

\* the loop of update_colnames from the i-th item on
RECURSIVE update_colnames(_, _, _)
update_colnames(tab, items, i) ==
    IF i > Len(items) THEN [err |-> NoErr, tab |-> tab]
    ELSE IF items[i][1] \notin ColNames(tab)
         THEN [err |-> Raise("KeyError", "key", items[i][1], "", "",
                             "update_colnames"), tab |-> tab]
    ELSE IF items[i][2] \in ColNames(tab)
         THEN [err |-> Raise("KeyError", "exists", items[i][2], "", "",
                             "update_colnames"), tab |-> tab]
    ELSE update_colnames(RenameColumn(tab, items[i][1], items[i][2]), items,
                         i + 1)

-----------------------------------------------------------------------------
(* The inputs *)

\* the subsets of S with at most n elements
RECURSIVE SubsetsUpTo(_, _)
SubsetsUpTo(S, n) ==
    IF n = 0 THEN {{}}
    ELSE LET prev == SubsetsUpTo(S, n - 1)
         IN  prev \cup {p \cup {x} : p \in prev, x \in S}

\* the cell of column c in a row of kind k
CellOf(c, k) ==
    CASE c = "aperture_net_cnts" -> IF k = "faint" THEN 100 ELSE 1000
      [] c = "noise"             -> IF k = "faint" THEN 10 ELSE 100
      [] c = "exposure"          -> IF k = "faint" THEN 1 ELSE 10
      [] c = "passband"          -> IF k = "faint" THEN "A" ELSE "B"
      [] c = "date-obs"          -> IF k = "faint" THEN 119 ELSE 121
      [] c = "aperture"          -> 5
      [] c = "annulus_inner"     -> 10
      [] c = "annulus_outer"     -> 15
      [] c = "ra"                -> 10
      [] c = "dec"               -> 20
      [] c = "mag"               -> IF k = "faint" THEN 14 ELSE 9
      [] c = "snr"               -> 2000
      [] OTHER                   -> 7

\* the unit a valid input carries in column c of a table described by descr
ValidUnit(descr, c) ==
    LET i == CHOOSE j \in 1..Len(descr) : descr[j][1] = c
    IN  IF descr[i][2] # None THEN descr[i][2]
        ELSE IF c \in Range(counts_columns) THEN "adu"
        ELSE None

\* another unit than u
OtherUnit(u) ==
    CASE u = "deg" -> "arcsec"
      [] u = "pix" -> "m"
      [] u = "s"   -> "min"
      [] u = "adu" -> "electron"
      [] OTHER     -> "adu"

\* the columns whose unit an input may have wrong
UnitColumns(descr) == {c \in Keys(descr) : ValidUnit(descr, c) # None}

\* an input table for description descr with rows of the kinds rows, the
\* columns dropped missing, the columns wrong carrying another unit, the
\* computed columns supplied present, and a date-obs column of scale scale
InputTable(descr, rows, dropped, wrong, supplied, scale) ==
    LET cols == (Keys(descr) \ dropped) \cup supplied
    IN  [unit |-> [c \in cols |->
                     IF c \in supplied THEN None
                     ELSE IF c \in wrong THEN OtherUnit(ValidUnit(descr, c))
                     ELSE ValidUnit(descr, c)],
         val  |-> [c \in cols |-> [i \in 1..Len(rows) |-> CellOf(c, rows[i])]],
         timescale |-> IF "date-obs" \in cols THEN scale ELSE "none"]

\* the rows of every input table
TheRows == <<"faint", "bright">>

\* the tables with at most MaxFaults deviating columns (dropped, or carrying
\* another unit)
FaultyTables(descr, scales) ==
    UNION {{InputTable(descr, TheRows, dropped, wrong, {}, scale) :
               wrong \in SubsetsUpTo(UnitColumns(descr) \ dropped,
                                     MaxFaults - Cardinality(dropped)),
               scale \in scales} :
           dropped \in SubsetsUpTo(Keys(descr), MaxFaults)}

\* the tables in which both ra and dec deviate, each dropped or carrying
\* another unit
TwoFaultTables(descr, scale) ==
    {InputTable(descr, TheRows, dropped, {"ra", "dec"} \ dropped, {}, scale) :
        dropped \in SUBSET {"ra", "dec"}}

PassbandMaps == {NoneMap, DictOf(<< <<"A", "B">> >>),
                 DictOf(<< <<"A", "B">>, <<"B", "V">> >>),
                 DictOf(<< <<"B", "V">>, <<"A", "B">> >>)}

Gains == {1, 100}

TheObservatory == [lat |-> 46, lon |-> -96, elev |-> 311]

Call(cls, tab, pbmap, retain, cnmap, gain) ==
    [cls |-> cls, data |-> tab, passband_map |-> pbmap,
     retain_user_computed |-> retain, colname_map |-> cnmap,
     camera |-> Camera(gain, 10, 1), observatory |-> TheObservatory]

\* calls of PhotometryData whose table deviates from the description
PhotFaultyCalls ==
    {Call("PhotometryData", t, pbmap, FALSE, NoneMap, 1) :
        t \in FaultyTables(phot_descript, {"utc", "tai", "none"})
              \cup TwoFaultTables(phot_descript, "utc"),
        pbmap \in {NoneMap, DictOf(<< <<"A", "B">> >>)}}

\* calls of PhotometryData on a table that fits the description, with any
\* subset of the computed columns supplied
PhotComputedCalls ==
    {Call("PhotometryData",
          InputTable(phot_descript, TheRows, {}, {}, supplied, "utc"),
          pbmap, retain, NoneMap, gain) :
        supplied \in SUBSET Range(computed_columns),
        pbmap \in PassbandMaps, retain \in BOOLEAN, gain \in Gains}

\* calls of CatalogData
CatalogCalls ==
    {Call("CatalogData", t, pbmap, FALSE, cnmap, 1) :
        t \in FaultyTables(catalog_descript, {"none"})
              \cup TwoFaultTables(catalog_descript, "none")
              \cup {RenameColumn(InputTable(catalog_descript, TheRows, {}, {},
                                            {}, "none"), "id", "name")},
        pbmap \in PassbandMaps,
        cnmap \in {NoneMap, DictOf(<< <<"name", "id">> >>)}}

Calls == PhotFaultyCalls \cup PhotComputedCalls \cup CatalogCalls

-----------------------------------------------------------------------------
(* The state machine *)

Init ==
    /\ args \in Calls
    /\ pc = IF args.cls = "PhotometryData" THEN "PD_attrs" ELSE "CD_attrs"
    /\ err = NoErr
    /\ steps = <<>>
    /\ reads = [c \in {} |-> {}]
    /\ data = args.data
    /\ orig_data = EmptyTable
    /\ self_built = FALSE
    /\ self_tab = EmptyTable
    /\ self_camera = 0
    /\ self_observatory = 0
    /\ self_passband_map = NoneMap
    /\ cameras = <<args.camera>>
    /\ observatories = <<args.observatory>>
    /\ nmut = 0
    /\ ci = 1
    /\ shared = {}
    /\ round = 1
    /\ first_tab = EmptyTable
    /\ cam_call = Idle
    /\ night = Idle
    /\ fc = Idle
    /\ hw = Idle
    /\ widget = Idle
    /\ rp = Idle

\* the constructor ends by raising e in step s
Raises(e, s) ==
    /\ pc' = "raised"
    /\ err' = e
    /\ steps' = Append(steps, s)
    /\ UNCHANGED others

\* the constructor goes on to position p after step s
GoesOn(p, s) ==
    /\ pc' = p
    /\ err' = NoErr
    /\ steps' = Append(steps, s)
    /\ UNCHANGED others

\* PhotometryData.__init__, lines 279-281: the attributes
PD_CopyAttrs ==
    /\ pc = "PD_attrs"
    /\ LET o == EarthLocation_copy(observatories, 1)
           c == Camera_copy(cameras, 1)
       IN  /\ observatories' = o.heap
           /\ self_observatory' = o.ref
           /\ cameras' = c.heap
           /\ self_camera' = c.ref
    /\ IF args.passband_map.isNone
       THEN /\ Raises(Raise("AttributeError", "copy", "", "", "", "PD_attrs"),
                      "PD_attrs")
            /\ UNCHANGED self_passband_map
       ELSE /\ GoesOn("PD_time", "PD_attrs")
            /\ self_passband_map' = args.passband_map
    /\ UNCHANGED <<reads, args, data, orig_data, self_built, self_tab, nmut, ci,
                   shared>>

\* the error of the check of the time column, lines 283-291
CheckTime(t) ==
    IF "date-obs" \notin ColNames(t)
    THEN Raise("KeyError", "key", "date-obs", "", "", "PD_time")
    ELSE IF t.timescale = "none"
    THEN Raise("ValueError", "not_time", "date-obs", "", "", "PD_time")
    ELSE IF t.timescale # "utc"
    THEN Raise("ValueError", "timescale", "date-obs", "utc", t.timescale,
               "PD_time")
    ELSE NoErr

PD_CheckTime ==
    /\ pc = "PD_time"
    /\ LET e == CheckTime(data)
       IN  IF e # NoErr THEN Raises(e, "PD_time")
           ELSE GoesOn("PD_counts", "PD_time")
    /\ UNCHANGED <<reads, args, data, orig_data, self_built, self_tab,
                   self_camera, self_observatory, self_passband_map, cameras,
                   observatories, nmut, ci, shared>>

\* the loop over counts_columns[1:], from the i-th column on
RECURSIVE CheckCountsFrom(_, _, _)
CheckCountsFrom(t, cnts_unit, i) ==
    IF i > Len(counts_columns) THEN NoErr
    ELSE LET this_col == counts_columns[i]
         IN  IF this_col \notin ColNames(t)
             THEN Raise("KeyError", "key", this_col, "", "", "PD_counts")
             ELSE IF t.unit[this_col] # cnts_unit
             THEN Raise("ValueError", "inconsistent_units", this_col, cnts_unit,
                        t.unit[this_col], "PD_counts")
             ELSE CheckCountsFrom(t, cnts_unit, i + 1)

\* the error of the check of the counts columns, lines 293-302
CheckCounts(t) ==
    IF counts_columns[1] \notin ColNames(t)
    THEN Raise("KeyError", "key", counts_columns[1], "", "", "PD_counts")
    ELSE CheckCountsFrom(t, t.unit[counts_columns[1]], 2)

PD_CheckCounts ==
    /\ pc = "PD_counts"
    /\ LET e == CheckCounts(data)
       IN  IF e # NoErr THEN Raises(e, "PD_counts")
           ELSE GoesOn("PD_base", "PD_counts")
    /\ UNCHANGED <<reads, args, data, orig_data, self_built, self_tab,
                   self_camera, self_observatory, self_passband_map, cameras,
                   observatories, nmut, ci, shared>>

\* line 305: super().__init__(self.phot_descript, data=data)
PD_BaseInit ==
    /\ pc = "PD_base"
    /\ LET r == BaseEnhancedTable_init(phot_descript, data)
       IN  /\ IF r.err # NoErr THEN Raises(r.err, "BaseInit")
              ELSE GoesOn("PD_compute", "BaseInit")
           /\ self_built' = r.built
           /\ self_tab' = r.tab
           /\ shared' = IF r.shares THEN shared \cup {"self"} ELSE shared
    /\ UNCHANGED <<reads, args, data, orig_data, self_camera, self_observatory,
                   self_passband_map, cameras, observatories, nmut, ci>>

\* one round of the loop over computed_columns, lines 313-373
PD_Compute ==
    /\ pc = "PD_compute"
    /\ LET this_col == computed_columns[ci]
           needs    == ReadsOf(this_col) \ Attributes
           absent   == needs \ ColNames(self_tab)
           next     == IF ci = Len(computed_columns) THEN "PD_passband"
                       ELSE "PD_compute"
       IN  IF this_col \in ColNames(self_tab)
           THEN /\ IF ~args.retain_user_computed
                   THEN Raises(Raise("ValueError", "already_computed", this_col,
                                     "", "", "PD_compute"), this_col)
                   ELSE GoesOn(next, "retained")
                /\ UNCHANGED <<self_tab, reads>>
           ELSE IF absent # {}
           THEN /\ Raises(Raise("KeyError", "key", CHOOSE c \in absent : TRUE,
                                "", "", "PD_compute"), this_col)
                /\ UNCHANGED <<self_tab, reads>>
           ELSE LET new == ValuesOf(this_col, self_tab, cameras[self_camera],
                                    observatories[self_observatory])
                IN  /\ GoesOn(next, this_col)
                    /\ self_tab' = SetColumn(self_tab, WrittenBy(this_col),
                                             new.unit, new.val)
                    /\ reads' = [c \in DOMAIN reads \cup {this_col} |->
                                   IF c = this_col THEN ReadsOf(this_col)
                                   ELSE reads[c]]
    /\ ci' = IF ci = Len(computed_columns) THEN ci ELSE ci + 1
    /\ UNCHANGED <<args, data, orig_data, self_built, self_camera,
                   self_observatory, self_passband_map, cameras, observatories,
                   nmut, shared>>

\* lines 376-378: the passband names
PD_UpdatePassbands ==
    /\ pc = "PD_passband"
    /\ LET r == IF ~args.passband_map.isNone
                THEN update_passbands(self_tab, self_passband_map, "PD_passband")
                ELSE [err |-> NoErr, tab |-> self_tab]
       IN  /\ IF r.err # NoErr THEN Raises(r.err, "PD_passband")
              ELSE GoesOn("done", "PD_passband")
           /\ self_tab' = r.tab
           /\ data' = IF "self" \in shared THEN WriteThrough(data, r.tab)
                      ELSE data
    /\ UNCHANGED <<reads, args, orig_data, self_built, self_camera,
                   self_observatory, self_passband_map, cameras, observatories,
                   nmut, ci, shared>>

\* CatalogData.__init__, lines 477-485: the attributes and the renaming
CD_SetAttrs ==
    /\ pc = "CD_attrs"
    /\ self_passband_map' = args.passband_map
    /\ LET c == Table_copy(data)
           r == IF ~args.colname_map.isNone
                THEN update_colnames(c.tab, args.colname_map.items, 1)
                ELSE [err |-> NoErr, tab |-> c.tab]
       IN  /\ IF r.err # NoErr THEN Raises(r.err, "CD_attrs")
              ELSE GoesOn("CD_base", "CD_attrs")
           /\ orig_data' = r.tab
           /\ data' = IF c.shares THEN r.tab ELSE data
           /\ shared' = IF c.shares THEN {"_orig_data"} ELSE {}
    /\ UNCHANGED <<reads, args, self_built, self_tab, self_camera,
                   self_observatory, cameras, observatories, nmut, ci>>

\* line 488: super().__init__(self.catalog_descript, data=self._orig_data)
CD_BaseInit ==
    /\ pc = "CD_base"
    /\ LET r == BaseEnhancedTable_init(catalog_descript, orig_data)
       IN  /\ IF r.err # NoErr THEN Raises(r.err, "BaseInit")
              ELSE GoesOn("CD_passband", "BaseInit")
           /\ self_built' = r.built
           /\ self_tab' = r.tab
           /\ shared' = IF r.shares THEN shared \cup {"self"} ELSE shared
    /\ UNCHANGED <<reads, args, data, orig_data, self_camera, self_observatory,
                   self_passband_map, cameras, observatories, nmut, ci>>

\* lines 490-492: the passband names
CD_UpdatePassbands ==
    /\ pc = "CD_passband"
    /\ LET r == IF ~args.passband_map.isNone
                THEN update_passbands(self_tab, self_passband_map, "CD_passband")
                ELSE [err |-> NoErr, tab |-> self_tab]
       IN  /\ IF r.err # NoErr THEN Raises(r.err, "CD_passband")
              ELSE GoesOn("done", "CD_passband")
           /\ self_tab' = r.tab
           /\ orig_data' = IF "self" \in shared
                           THEN WriteThrough(orig_data, r.tab) ELSE orig_data
           /\ data' = IF {"self", "_orig_data"} \subseteq shared
                      THEN WriteThrough(data, r.tab) ELSE data
    /\ UNCHANGED <<reads, args, self_built, self_camera,
                   self_observatory, self_passband_map, cameras, observatories,
                   nmut, ci, shared>>

\* after the call the caller assigns to an attribute of its Camera
MutateCamera ==
    /\ pc = "done"
    /\ args.cls = "PhotometryData"
    /\ nmut < MaxMutations
    /\ \E f \in {"gain", "read_noise", "dark_current"} :
          cameras' = [cameras EXCEPT ![1][f] = @ + 1]
    /\ nmut' = nmut + 1
    /\ UNCHANGED <<pc, err, steps, reads, args, data, orig_data, self_built,
                   self_tab, self_camera, self_observatory, self_passband_map,
                   observatories, ci, shared>>
    /\ UNCHANGED others

\* after the call the caller changes its observatory object in place
MutateObservatory ==
    /\ pc = "done"
    /\ args.cls = "PhotometryData"
    /\ nmut < MaxMutations
    /\ \E f \in {"lat", "lon", "elev"} :
          observatories' = [observatories EXCEPT ![1][f] = @ + 1]
    /\ nmut' = nmut + 1
    /\ UNCHANGED <<pc, err, steps, reads, args, data, orig_data, self_built,
                   self_tab, self_camera, self_observatory, self_passband_map,
                   cameras, ci, shared>>
    /\ UNCHANGED others

Next ==
    \/ PD_CopyAttrs
    \/ PD_CheckTime
    \/ PD_CheckCounts
    \/ PD_BaseInit
    \/ PD_Compute
    \/ PD_UpdatePassbands
    \/ CD_SetAttrs
    \/ CD_BaseInit
    \/ CD_UpdatePassbands
    \/ MutateCamera
    \/ MutateObservatory

Spec == Init /\ [][Next]_vars

-----------------------------------------------------------------------------
(* Vocabulary of the properties *)

Finished == pc \in {"done", "raised"}
IsPhot == args.cls = "PhotometryData"
\* step s of the constructor has been executed
Ran(s) == s \in Range(steps)
\* the computed columns the caller supplied
Supplied == ColNames(args.data) \cap Range(computed_columns)
\* the table handed to BaseEnhancedTable.__init__
BaseInput == IF IsPhot THEN data ELSE orig_data
\* the input fits the description and supplies no computed column
ValidPhotInput ==
    args.data = InputTable(phot_descript, TheRows, {}, {}, {}, "utc")

-----------------------------------------------------------------------------
(* C1 *)

\* C1 (final clause, and the spec's "a validated table wrapper that is a
\* strict superset of the required columns"): construction never succeeds
\* with a column of the table description absent from the table.
C1_NeverSucceedsWithColumnAbsent ==
    pc = "done" => Keys(Descript(args.cls)) \subseteq ColNames(self_tab)

-----------------------------------------------------------------------------
(* C2 *)

\* the items of the description of the class under construction that the
\* input to BaseEnhancedTable.__init__ violates: a declared unit, and the
\* column absent or carrying another unit
C2_Violations ==
    LET descr == Descript(args.cls)
    IN  {i \in 1..Len(descr) :
            /\ descr[i][2] # None
            /\ \/ descr[i][1] \notin ColNames(BaseInput)
               \/ BaseInput.unit[descr[i][1]] # descr[i][2]}

\* C2: once BaseEnhancedTable.__init__ has run: if a described column with a
\* declared unit carries another unit (or is absent), it has raised a
\* ValueError naming the first such column of the description, with the
\* declared and the actual unit when the column is present, and has built no
\* table and converted nothing; if every declared unit equals the input's
\* and the columns are present it has raised nothing and the table built
\* carries the input's units.
C2_UnitMismatchRaises ==
    Ran("BaseInit") =>
        LET descr == Descript(args.cls)
        IN  IF C2_Violations # {}
            THEN LET i == CHOOSE k \in C2_Violations :
                              \A m \in C2_Violations : k <= m
                     c == descr[i][1]
                 IN  /\ pc = "raised"
                     /\ err.type = "ValueError"
                     /\ err.col = c
                     /\ c \in ColNames(BaseInput) =>
                            /\ err.kind = "wrong_unit"
                            /\ err.expected = descr[i][2]
                            /\ err.actual = BaseInput.unit[c]
                            /\ err.actual = args.data.unit[c]
                     /\ c \notin ColNames(BaseInput) => err.kind = "missing"
                     /\ ~self_built
                     /\ self_tab = EmptyTable
            ELSE /\ err.origin # "BaseEnhancedTable"
                 /\ self_built
                 /\ \A c \in ColNames(BaseInput) :
                        c \in ColNames(self_tab)
                        /\ (c \notin Range(computed_columns) =>
                                self_tab.unit[c] = BaseInput.unit[c])

\* C2 witness: BaseEnhancedTable.__init__ has raised for a column that is
\* present with a unit other than the declared one, on an input in which a
\* later column of the description deviates too.
C2_Witness ==
    /\ Ran("BaseInit")
    /\ pc = "raised"
    /\ err.kind = "wrong_unit"
    /\ err.col \in ColNames(BaseInput)
    /\ BaseInput.unit[err.col] = "arcsec"
    /\ Cardinality(C2_Violations) > 1

-----------------------------------------------------------------------------
(* C3 *)

\* column c is the only one of the seven counts columns of the input whose
\* unit differs from the unit the other six share
C3_OnlyDiffering(c) ==
    /\ Range(counts_columns) \subseteq ColNames(data)
    /\ \A a, b \in Range(counts_columns) \ {c} : data.unit[a] = data.unit[b]
    /\ \A a \in Range(counts_columns) \ {c} : data.unit[a] # data.unit[c]

\* C3: once the check of the counts columns has run: if the seven columns
\* carry the same unit it has passed; if exactly one of the seven differs
\* from the other six it has raised an error that names that column, for
\* each of the seven columns.
C3_ErrorNamesDifferingColumn ==
    Ran("PD_counts") =>
        /\ (/\ Range(counts_columns) \subseteq ColNames(data)
            /\ \A a, b \in Range(counts_columns) : data.unit[a] = data.unit[b])
               => err.origin # "PD_counts"
        /\ \A c \in Range(counts_columns) :
               C3_OnlyDiffering(c) =>
                   /\ pc = "raised"
                   /\ err.kind = "inconsistent_units"
                   /\ err.col = c

-----------------------------------------------------------------------------
(* C4 *)

\* C4: a finished PhotometryData construction whose date-obs column is a
\* time column of a scale other than utc has raised the time-scale error
\* and computed none of the seven computed columns; one whose date-obs
\* column is no time column has raised the other ("isn't column of
\* astropy.time.Time entries") error.
C4_NonUtcRaisesTimeScaleError ==
    (Finished /\ IsPhot /\ "date-obs" \in ColNames(args.data)) =>
        /\ args.data.timescale \notin {"utc", "none"} =>
               /\ pc = "raised"
               /\ err.type = "ValueError"
               /\ err.kind = "timescale"
               /\ Range(steps) \cap Range(computed_columns) = {}
               /\ ColNames(self_tab) \cap Range(computed_columns) = {}
        /\ args.data.timescale = "none" =>
               /\ pc = "raised"
               /\ err.type = "ValueError"
               /\ err.kind = "not_time"

-----------------------------------------------------------------------------
(* C5 *)

\* C5 (the retain clause): after a successful construction with
\* retain_user_computed True, every computed column the caller supplied
\* holds the values the caller supplied.
C5_RetainedColumnsKeepUserValues ==
    (pc = "done" /\ IsPhot /\ args.retain_user_computed) =>
        \A c \in Supplied :
            /\ c \in ColNames(self_tab)
            /\ self_tab.val[c] = args.data.val[c]

-----------------------------------------------------------------------------
(* C6 *)

\* C6: after a successful construction from input without computed columns,
\* mag_inst of every row is -2.5 * log10(gain * aperture_net_cnts / exposure)
\* (-5.0 for gain 1, 100 counts and 1 s: the first row of the inputs).
C6_MagInstFormula ==
    (pc = "done" /\ IsPhot /\ ValidPhotInput /\ Supplied = {}) =>
        /\ "mag_inst" \in ColNames(self_tab)
        /\ \A i \in 1..NRows(args.data) :
               self_tab.val["mag_inst"][i] =
                   MagInstCoeffMicro
                   * ILog10((args.camera.gain
                             * args.data.val["aperture_net_cnts"][i])
                                \div args.data.val["exposure"][i])

-----------------------------------------------------------------------------
(* C7 *)

\* C7: after a successful construction from input without computed columns,
\* the seven computed columns are present and mag_error of every row is
\* 1.0857362 / snr of that row.
C7_MagErrorColumnPresent ==
    (pc = "done" /\ IsPhot /\ ValidPhotInput /\ Supplied = {}) =>
        /\ Range(computed_columns) \subseteq ColNames(self_tab)
        /\ \A i \in 1..NRows(args.data) :
               self_tab.val["mag_error"][i] = MagErrNano \div self_tab.val["snr"][i]

-----------------------------------------------------------------------------
(* C8 *)

\* what the bjd and night cases may read
C8_RawSources ==
    {"date-obs", "ra", "dec", "exposure", "observatory.lat", "observatory.lon"}

\* C8: when the loop over the computed columns stands at mag_error, self has
\* a snr column; the mag_error case never fails for want of a column; if both
\* snr and mag_error were computed, snr was computed first; and the bjd and
\* night cases read only date-obs, ra, dec, exposure and the observatory.
C8_SnrBeforeMagError ==
    /\ (pc = "PD_compute" /\ computed_columns[ci] = "mag_error")
           => "snr" \in ColNames(self_tab)
    /\ ~(pc = "raised" /\ err.origin = "PD_compute" /\ err.type = "KeyError")
    /\ \A i, j \in 1..Len(steps) :
           (steps[i] = "mag_error" /\ steps[j] = "snr") => j < i
    /\ \A c \in DOMAIN reads \cap {"bjd", "night"} :
           /\ reads[c] \subseteq C8_RawSources
           /\ reads[c] \cap Range(computed_columns) = {}

\* C8 witness: the mag_error case has run after the snr case, and bjd and
\* night were computed in the same construction.
C8_Witness ==
    /\ Ran("mag_error")
    /\ Ran("snr")
    /\ {"bjd", "night"} \subseteq DOMAIN reads

-----------------------------------------------------------------------------
(* C9 *)

\* C9: after a successful PhotometryData construction, self.camera and
\* self.observatory hold the values passed to the constructor, and no later
\* step (the caller assigning to an attribute of its Camera, or changing its
\* observatory) changes them or any column of the table.
C9_AttributesAreCopies ==
    /\ []((pc = "done" /\ IsPhot) =>
             /\ cameras[self_camera] = args.camera
             /\ observatories[self_observatory] = args.observatory)
    /\ [][(pc = "done" /\ IsPhot) =>
             /\ cameras'[self_camera'] = cameras[self_camera]
             /\ observatories'[self_observatory'] = observatories[self_observatory]
             /\ self_tab' = self_tab]_vars

\* C9 witness: after a successful construction the caller has changed both
\* its Camera and its observatory.
C9_Witness ==
    /\ pc = "done"
    /\ IsPhot
    /\ nmut > 0
    /\ cameras[1] # args.camera \/ observatories[1] # args.observatory
    /\ "snr" \in ColNames(self_tab)

-----------------------------------------------------------------------------
(* C10 *)

\* C10: a finished PhotometryData construction with passband_map omitted
\* (None) and otherwise valid arguments has succeeded, and the passband
\* column holds the input's values.
C10_PassbandMapOptional ==
    (Finished /\ IsPhot /\ args.passband_map.isNone /\ ValidPhotInput) =>
        /\ pc = "done"
        /\ self_tab.val["passband"] = args.data.val["passband"]

-----------------------------------------------------------------------------
\* C11: at every point of a construction of PhotometryData or CatalogData,
\* whether it ends with a table or with an error, the caller's input table
\* has the column names, the units and the cell values it was passed with
C11_InputTableUnchanged == data = args.data

\* a CatalogData call has ended after it renamed a column and rewrote a
\* passband value in the table it built
C11_Witness ==
    /\ pc = "done"
    /\ ~IsPhot
    /\ ~args.colname_map.isNone
    /\ ColNames(self_tab) # ColNames(data)
    /\ self_tab.val["passband"] # data.val["passband"]

-----------------------------------------------------------------------------
(* Camera.__init__ on arbitrary arguments *)

\* an argument of Camera: a bare number (unit None) or a Quantity
CameraArgs == [value : {1, 10}, unit : {None, "electron / adu", "m"}]

\* isinstance(x, Quantity)
IsQuantity(x) == x.unit # None

\* a mutant of Camera_init: the checks run from the last parameter to the first
Camera_init_LastFirst(gain, read_noise, dark_current) ==
    IF ~IsQuantity(dark_current)
    THEN [err |-> Raise("TypeError", "no_units", "dark_current", "", "", "Camera"),
          made |-> <<>>]
    ELSE IF ~IsQuantity(read_noise)
    THEN [err |-> Raise("TypeError", "no_units", "read_noise", "", "", "Camera"),
          made |-> <<>>]
    ELSE IF ~IsQuantity(gain)
    THEN [err |-> Raise("TypeError", "no_units", "gain", "", "", "Camera"),
          made |-> <<>>]
    ELSE [err |-> NoErr, made |-> <<Camera(gain, read_noise, dark_current)>>]

\* Camera.__init__(gain, read_noise, dark_current), lines 63-82: the error
\* raised and the Camera objects the caller gets (none after an error)
Camera_init(gain, read_noise, dark_current) ==
    IF ~IsQuantity(gain)
    THEN [err |-> Raise("TypeError", "no_units", "gain", "", "", "Camera"),
          made |-> <<>>]
    ELSE IF ~IsQuantity(read_noise)
    THEN [err |-> Raise("TypeError", "no_units", "read_noise", "", "", "Camera"),
          made |-> <<>>]
    ELSE IF ~IsQuantity(dark_current)
    THEN [err |-> Raise("TypeError", "no_units", "dark_current", "", "", "Camera"),
          made |-> <<>>]
    ELSE [err |-> NoErr, made |-> <<Camera(gain, read_noise, dark_current)>>]

\* no construction of a table is running
TablesIdle ==
    /\ pc = "idle"
    /\ err = NoErr
    /\ steps = <<>>
    /\ reads = [c \in {} |-> {}]
    /\ args = Idle
    /\ data = EmptyTable
    /\ orig_data = EmptyTable
    /\ self_built = FALSE
    /\ self_tab = EmptyTable
    /\ self_camera = 0
    /\ self_observatory = 0
    /\ self_passband_map = NoneMap
    /\ cameras = <<>>
    /\ observatories = <<>>
    /\ nmut = 0
    /\ ci = 1
    /\ shared = {}
    /\ round = 1
    /\ first_tab = EmptyTable

InitCamera ==
    /\ TablesIdle
    /\ \E g \in CameraArgs, r \in CameraArgs, d \in CameraArgs :
          cam_call = [pc |-> "call", gain |-> g, read_noise |-> r,
                      dark_current |-> d, err |-> NoErr, made |-> <<>>]
    /\ night = Idle
    /\ fc = Idle
    /\ hw = Idle
    /\ widget = Idle
    /\ rp = Idle

\* the call Camera(gain=..., read_noise=..., dark_current=...)
CameraInit ==
    /\ cam_call.pc = "call"
    /\ LET r == Camera_init(cam_call.gain, cam_call.read_noise,
                            cam_call.dark_current)
       IN  cam_call' = [cam_call EXCEPT !.pc = "returned", !.err = r.err,
                                        !.made = r.made]
    /\ UNCHANGED <<table_vars, night, fc, hw, widget, rp>>

NextCamera == CameraInit

SpecCamera == InitCamera /\ [][NextCamera]_vars

\* the parameters of a Camera call that are not quantities, in the order of
\* the signature
CameraOffending ==
    SelectSeq(<<"gain", "read_noise", "dark_current">>,
              LAMBDA f : ~IsQuantity(cam_call[f]))

\* C12: a Camera call yields a Camera exactly when gain, read_noise and
\* dark_current are all quantities; otherwise it raises TypeError naming the
\* first parameter, in the order gain, read_noise, dark_current, that is not
\* one, and yields no Camera
C12_CameraNeedsUnits ==
    cam_call.pc = "returned" =>
       IF CameraOffending = <<>>
       THEN /\ cam_call.err = NoErr
            /\ cam_call.made = <<Camera(cam_call.gain, cam_call.read_noise,
                                        cam_call.dark_current)>>
       ELSE /\ cam_call.err.type = "TypeError"
            /\ cam_call.err.col = Head(CameraOffending)
            /\ cam_call.made = <<>>

\* a call has returned in which read_noise and dark_current are bare numbers
C12_Witness ==
    /\ cam_call.pc = "returned"
    /\ CameraOffending = <<"read_noise", "dark_current">>
    /\ cam_call.err.col = "read_noise"

-----------------------------------------------------------------------------
(* The call repeated on its own result *)

\* the caller passes the table a successful call produced to the same class
\* again, with the arguments of the first call
Revalidate ==
    /\ pc = "done"
    /\ round = 1
    /\ nmut = 0
    /\ round' = 2
    /\ first_tab' = self_tab
    /\ args' = [args EXCEPT !.data = self_tab]
    /\ data' = self_tab
    /\ pc' = IF IsPhot THEN "PD_attrs" ELSE "CD_attrs"
    /\ err' = NoErr
    /\ steps' = <<>>
    /\ reads' = [c \in {} |-> {}]
    /\ orig_data' = EmptyTable
    /\ self_built' = FALSE
    /\ self_tab' = EmptyTable
    /\ self_camera' = 0
    /\ self_observatory' = 0
    /\ self_passband_map' = NoneMap
    /\ cameras' = <<args.camera>>
    /\ observatories' = <<args.observatory>>
    /\ ci' = 1
    /\ shared' = {}
    /\ UNCHANGED <<nmut, cam_call, night, fc, hw, widget, rp>>

NextRevalidate ==
    \/ Next
    \/ Revalidate

SpecRevalidate == Init /\ [][NextRevalidate]_vars

\* the arguments under which the call can be repeated on its result:
\* retain_user_computed=True for PhotometryData, no colname_map for
\* CatalogData, and no value of the passband map is one of its keys
C13_Repeatable ==
    /\ IsPhot => args.retain_user_computed
    /\ ~IsPhot => args.colname_map.isNone
    /\ \A i, j \in 1..Len(args.passband_map.items) :
          args.passband_map.items[i][2] # args.passband_map.items[j][1]

-----------------------------------------------------------------------------
(* The night counter of two observations from one observatory *)

\* days of observation after the first
MaxDays == 1

\* longitudes of the observatory, in degrees
NightLons == {-180, -96, -7, 0, 7, 96, 180}

\* times of observation, in minutes of UTC since MJD 0: every full hour of
\* the days from MJD 60000 on, and the last minute before noon and midnight
NightTimes ==
    {(60000 + d) * 1440 + h * 60 + m :
        d \in 0..MaxDays, h \in 0..23, m \in {0}}
    \cup {(60000 + d) * 1440 + h * 60 + 59 : d \in 0..MaxDays, h \in {11, 23}}

InitNight ==
    /\ TablesIdle
    /\ cam_call = Idle
    /\ \E lon \in NightLons, t1 \in NightTimes, t2 \in NightTimes :
          night = [pc |-> "call", lon |-> lon, t |-> <<t1, t2>>,
                   hr_offset |-> 0, id |-> <<0, 0>>]
    /\ fc = Idle
    /\ hw = Idle
    /\ widget = Idle
    /\ rp = Idle

\* the night column is computed for a table of the two observations
ComputeNight ==
    /\ night.pc = "call"
    /\ night' = [night EXCEPT !.pc = "done",
                              !.hr_offset = HrOffset(night.lon),
                              !.id = <<NightOf(night.t[1], night.lon),
                                       NightOf(night.t[2], night.lon)>>]
    /\ UNCHANGED <<table_vars, cam_call, fc, hw, widget, rp>>

NextNight == ComputeNight

SpecNight == InitNight /\ [][NextNight]_vars

\* the interval [local noon, next local noon) an instant falls in, counted in
\* days, where local time is UTC plus the whole-hour offset of the longitude
LocalNight(t, lon) == (t + 60 * TruncDiv(lon, 15) - 720) \div 1440

\* C14: two observations from one observatory get the same night identifier
\* exactly when their local times (UTC plus the whole-hour offset) fall in
\* the same interval from local noon to the next local noon
C14_NightConstantOverLocalNight ==
    night.pc = "done" =>
       ((night.id[1] = night.id[2]) <=>
           (LocalNight(night.t[1], night.lon) = LocalNight(night.t[2], night.lon)))

\* longitude 0: 23:00 of one day and 01:00 of the next got one identifier
C14_Witness ==
    /\ night.pc = "done"
    /\ night.lon = 0
    /\ night.t[1] % 1440 = 23 * 60
    /\ night.t[2] = night.t[1] + 120
    /\ night.id[1] = night.id[2]

-----------------------------------------------------------------------------
(* find_center (src/stellarphot/gui_tools/seeing_profile_functions.py) *)
(*                                                                         *)
(* Positions are in hundredths of a pixel.  sigma_clipped_stats and        *)
(* centroid_com are library calls on the pixels of the cutout: the         *)
(* centroid they yield is drawn from the values they can return for a      *)
(* cutout of the given extent.                                             *)

Max(a, b) == IF a > b THEN a ELSE b
Min(a, b) == IF a < b THEN a ELSE b
Abs(a) == IF a < 0 THEN 0 - a ELSE a

\* the extent of the Python slice a[lo:hi] of a sequence of n entries
PySlice(lo, hi, n) ==
    LET norm(i) == IF i < 0 THEN Max(i + n, 0) ELSE Min(i, n)
    IN  [start |-> norm(lo), stop |-> Max(norm(hi), norm(lo))]

\* a centroid: finite coordinates x, y, or nan, or inf
Finite(x, y) == [kind |-> "finite", x |-> x, y |-> y]
NaN == [kind |-> "nan", x |-> 0, y |-> 0]
Inf == [kind |-> "inf", x |-> 0, y |-> 0]

\* offsets of a centroid from the centre of the cutout, along x and along y
XOffsets == {-400, 0, 5, 400}
YOffsets == {0, 400}

\* what centroid_com can return for image[y-pad:y+pad, x-pad:x+pad]: nan for
\* a cutout without flux (an empty one included), inf when the flux sums to
\* zero around a non-zero moment (only without a mask, as the masked data
\* are non-negative), or a position inside the cutout
Centroids(image, x, y, pad, masked) ==
    LET xs == PySlice(x - pad, x + pad, image.nx)
        ys == PySlice(y - pad, y + pad, image.ny)
        w  == xs.stop - xs.start
        h  == ys.stop - ys.start
    IN  IF w = 0 \/ h = 0 THEN {NaN}
        ELSE {NaN} \cup (IF masked THEN {} ELSE {Inf})
             \cup {Finite(100 * pad + dx, 100 * pad + dy) :
                      dx \in {d \in XOffsets : 100 * pad + d \in 0..(100 * (w - 1))},
                      dy \in {d \in YOffsets : 100 * pad + d \in 0..(100 * (h - 1))}}

\* np.array([x_cm + x - pad, y_cm + y - pad])
ToImage(cm, x, y, pad) ==
    IF cm.kind = "finite"
    THEN Finite(cm.x + 100 * (x - pad), cm.y + 100 * (y - pad))
    ELSE cm

\* the condition of the while loop, lines 148-150; a comparison with nan is
\* false
LoopCondition(f) ==
    /\ f.cnt <= f.max_iters
    /\ \/ f.cm.kind = "inf"
       \/ /\ f.cm.kind = "finite"
          /\ Max(Abs(f.cm.x - 100 * f.pad), Abs(f.cm.y - 100 * f.pad)) > 300
       \/ f.cen.kind = "inf"
       \/ /\ f.cen.kind = "finite"
          /\ Max(Abs(f.cen.x - f.ceno.x), Abs(f.cen.y - f.ceno.y)) > 10

\* the images (by their shape) and the guesses find_center is called with
Images == {[nx |-> 40, ny |-> 40]}
Guesses == {<<20, 20>>, <<5, 20>>, <<30, 20>>, <<20, 36>>}
CutoutSizes == {30}
MaxItersArgs == {0, 1, 2}

InitCenter ==
    /\ TablesIdle
    /\ cam_call = Idle
    /\ night = Idle
    /\ \E image \in Images, g \in Guesses, cs \in CutoutSizes,
          mi \in MaxItersArgs :
          fc = [pc |-> "call", image |-> image, center_guess |-> g,
                cutout_size |-> cs, max_iters |-> mi, pad |-> 0, x |-> 0,
                y |-> 0, cnt |-> 0, cm |-> NaN, cen |-> NaN, ceno |-> NaN,
                err |-> NoErr]
    /\ hw = Idle
    /\ widget = Idle
    /\ rp = Idle

\* lines 126-146: the first cutout and its centroid
FC_First ==
    /\ fc.pc = "call"
    /\ LET pad == fc.cutout_size \div 2
           x   == fc.center_guess[1]
           y   == fc.center_guess[2]
       IN  \E cm \in Centroids(fc.image, x, y, pad, FALSE) :
              fc' = [fc EXCEPT !.pc = "loop", !.pad = pad, !.x = x, !.y = y,
                               !.cnt = 0, !.cm = cm,
                               !.cen = ToImage(cm, x, y, pad),
                               !.ceno = Finite(-10000, -10000)]
    /\ UNCHANGED <<table_vars, cam_call, night, hw, widget, rp>>

\* lines 151-165: one round of the loop
FC_Iterate ==
    /\ fc.pc = "loop"
    /\ LoopCondition(fc)
    /\ IF fc.cm.kind = "inf"
       THEN fc' = [fc EXCEPT !.pc = "raised",
                             !.err = Raise("OverflowError", "int", "", "", "",
                                           "find_center")]
       ELSE LET x == (fc.cm.x \div 100) + fc.x - fc.pad
                y == (fc.cm.y \div 100) + fc.y - fc.pad
            IN  \E cm \in Centroids(fc.image, x, y, fc.pad, TRUE) :
                   LET cen == ToImage(cm, x, y, fc.pad)
                   IN  IF cen.kind = "nan"
                       THEN fc' = [fc EXCEPT !.pc = "raised", !.x = x, !.y = y,
                                       !.cm = cm, !.ceno = fc.cen, !.cen = cen,
                                       !.err = Raise("RuntimeError", "centroid",
                                                     "", "", "", "find_center")]
                       ELSE fc' = [fc EXCEPT !.x = x, !.y = y, !.cm = cm,
                                       !.ceno = fc.cen, !.cen = cen,
                                       !.cnt = fc.cnt + 1]
    /\ UNCHANGED <<table_vars, cam_call, night, hw, widget, rp>>

\* line 167: return cen
FC_Return ==
    /\ fc.pc = "loop"
    /\ ~LoopCondition(fc)
    /\ fc' = [fc EXCEPT !.pc = "returned"]
    /\ UNCHANGED <<table_vars, cam_call, night, hw, widget, rp>>

NextCenter ==
    \/ FC_First
    \/ FC_Iterate
    \/ FC_Return

SpecCenter == InitCenter /\ [][NextCenter]_vars

\* C15: find_center returns after at most max_iters rounds of its loop
C15_AtMostMaxIters == fc.pc = "returned" => fc.cnt <= fc.max_iters

\* the cutout around the guess lies inside the image
GuessInside ==
    /\ fc.center_guess[1] - fc.pad >= 0
    /\ fc.center_guess[1] + fc.pad <= fc.image.nx
    /\ fc.center_guess[2] - fc.pad >= 0
    /\ fc.center_guess[2] + fc.pad <= fc.image.ny

\* C16: find_center never returns a coordinate that is not finite (stated
\* for the calls whose first cutout lies inside the image)
C16_NeverReturnsNonFinite ==
    (fc.pc = "returned" /\ GuessInside) => fc.cen.kind = "finite"

-----------------------------------------------------------------------------
(* RadialProfile.find_hwhm *)
(*                                                                         *)
(* Radii are in hundredths of a pixel, scaled intensities in thousandths.  *)
(* A quotient of floats is kept as the pair of its numerator and           *)
(* denominator.                                                            *)

\* bins of a profile
MaxBins == 5

\* a[i] for a Python index i of the array a (negative: from the end)
PyAt(a, i) == IF i < 0 THEN a[Len(a) + i + 1] ELSE a[i + 1]

\* a mutant of Selected: the selected indices from the last to the first
Selected_Descending(intensity) ==
    LET S == {k \in 0..(Len(intensity) - 1) : PyAt(intensity, k) < 500}
        RECURSIVE Desc(_)
        Desc(T) == IF T = {} THEN <<>>
                   ELSE LET m == CHOOSE k \in T : \A j \in T : j <= k
                        IN  <<m>> \o Desc(T \ {m})
    IN  Desc(S)

\* a mutant of Selected: every index when no intensity is below one half
Selected_OrAll(intensity) ==
    LET idx == [k \in 1..Len(intensity) |-> k - 1]
        sel == SelectSeq(idx, LAMBDA k : PyAt(intensity, k) < 500)
    IN  IF sel = <<>> THEN idx ELSE sel

\* np.arange(len(less_than_half))[less_than_half], lines 357-358: the
\* indices of the bins whose intensity is below one half, in rising order
Selected(intensity) ==
    SelectSeq([k \in 1..Len(intensity) |-> k - 1],
              LAMBDA k : PyAt(intensity, k) < 500)

\* find_hwhm on the arrays r = self.ravg and intensity = self.scaled_profile,
\* lines 337-369
find_hwhm(r, intensity) ==
    LET sel == Selected(intensity)
    IN  IF sel = <<>>
        THEN [err |-> Raise("IndexError", "index", "", "", "", "find_hwhm"),
              half_index |-> 0, num |-> 0, den |-> 0]
        ELSE LET half_index  == sel[1]
                 before_half == half_index - 1
                 r_more == PyAt(r, before_half)
                 r_less == PyAt(r, half_index)
                 I_more == PyAt(intensity, before_half)
                 I_less == PyAt(intensity, half_index)
                 I_half == 500
             IN  [err |-> NoErr, half_index |-> half_index,
                  num |-> r_less * (I_less - I_more)
                          - (I_less - I_half) * (r_less - r_more),
                  den |-> I_less - I_more]

\* scaled profiles: the largest bin is 1 by the scaling of profile()
Intensities == {0, 400, 500, 600, 1000}
Profiles ==
    UNION {{p \in [1..n -> Intensities] : 1000 \in Range(p)} : n \in 1..MaxBins}

\* the mean radius of bin k: k pixels and a fraction
Radii(n, frac) == [k \in 1..n |-> 100 * (k - 1) + frac]

InitHwhm ==
    /\ TablesIdle
    /\ cam_call = Idle
    /\ night = Idle
    /\ fc = Idle
    /\ \E p \in Profiles, frac \in {0, 40} :
          hw = [pc |-> "call", r |-> Radii(Len(p), frac), intensity |-> p,
                result |-> [err |-> NoErr, half_index |-> 0, num |-> 0,
                            den |-> 0]]
    /\ widget = Idle
    /\ rp = Idle

\* the call rad_prof.find_hwhm() (the properties HWHM and FWHM pass its
\* result or its exception on)
FindHwhm ==
    /\ hw.pc = "call"
    /\ LET res == find_hwhm(hw.r, hw.intensity)
       IN  hw' = [hw EXCEPT !.pc = IF res.err = NoErr THEN "returned"
                                   ELSE "raised",
                            !.result = res]
    /\ UNCHANGED <<table_vars, cam_call, night, fc, widget, rp>>

NextHwhm == FindHwhm

SpecHwhm == InitHwhm /\ [][NextHwhm]_vars

\* the bins of the call's profile whose intensity is below one half
BinsBelowHalf ==
    {k \in 0..(Len(hw.intensity) - 1) : PyAt(hw.intensity, k) < 500}

\* C17: find_hwhm takes the lowest bin i whose scaled intensity is below
\* 0.5 and, when i has a bin before it, returns
\* r[i-1] + (I[i-1] - 0.5) / (I[i-1] - I[i]) * (r[i] - r[i-1])
C17_HwhmInterpolation ==
    (hw.pc = "returned" /\ hw.result.half_index >= 1) =>
       LET i == hw.result.half_index
           claim_num == PyAt(hw.r, i - 1)
                           * (PyAt(hw.intensity, i - 1) - PyAt(hw.intensity, i))
                        + (PyAt(hw.intensity, i - 1) - 500)
                           * (PyAt(hw.r, i) - PyAt(hw.r, i - 1))
           claim_den == PyAt(hw.intensity, i - 1) - PyAt(hw.intensity, i)
       IN  /\ i \in BinsBelowHalf
           /\ \A k \in BinsBelowHalf : i <= k
           /\ hw.result.den # 0
           /\ hw.result.num * claim_den = claim_num * hw.result.den

\* the profile 1.0 at r = 0, 0.6 at r = 3 and 0.4 at r = 4 gave 3.5, with a
\* further bin below one half behind
C17_Witness ==
    /\ hw.pc = "returned"
    /\ Len(hw.intensity) = 5
    /\ hw.intensity[1] = 1000 /\ hw.intensity[4] = 600 /\ hw.intensity[5] = 400
    /\ hw.r[4] = 300 /\ hw.r[5] = 400
    /\ hw.result.half_index = 4
    /\ hw.result.num * 2 = 700 * hw.result.den

\* C18: when no bin of the profile is below 0.5, find_hwhm ends with an
\* exception and returns no radius
C18_NoHalfBinRaises ==
    (hw.pc # "call" /\ BinsBelowHalf = {}) =>
       (hw.pc = "raised" /\ hw.result.err.type = "IndexError")

\* a call on a profile whose every bin is at least one half has ended
C18_Witness ==
    /\ hw.pc = "raised"
    /\ Len(hw.intensity) > 1
    /\ \A k \in 1..Len(hw.intensity) : hw.intensity[k] >= 500

-----------------------------------------------------------------------------
(* SeeingProfileWidget: a click on a star *)

\* clicks on the image
MaxClicks == 2
\* the largest half-width at half-maximum of a star, in hundredths of a pixel
MaxHwhm == 300
\* the largest number of changes of the aperture settings widget
MaxChanges == 2

\* np.round of the quotient num / den (den > 0): the nearest integer, the
\* even one of the two when num / den lies half-way
NpRound(num, den) ==
    LET q == num \div den
        rem == num % den
    IN  IF 2 * rem < den THEN q
        ELSE IF 2 * rem > den THEN q + 1
        ELSE IF q % 2 = 0 THEN q ELSE q + 1

\* RadialProfile.FWHM, lines 323-328: int(np.round(2 * self.HWHM)), for a
\* HWHM of hwhm hundredths of a pixel
FWHM(hwhm) == NpRound(2 * hwhm, 100)

\* a mutant of ApertureRadius: 1.5 times the integer FWHM, rounded
ApertureRadius_FromFWHM(hwhm) == NpRound(15 * FWHM(hwhm), 10)

\* line 678: aperture_radius = np.round(1.5 * 2 * rad_prof.HWHM, 0)
ApertureRadius(hwhm) == NpRound(3 * hwhm, 100)

\* what building the profile of the clicked star ends with: a HWHM, or the
\* exception of find_center or find_hwhm
ClickOutcomes ==
    {[err |-> NoErr, hwhm |-> h] : h \in 1..MaxHwhm}
    \cup {[err |-> Raise("IndexError", "index", "", "", "", "find_hwhm"),
           hwhm |-> 0],
          [err |-> Raise("RuntimeError", "centroid", "", "", "", "find_center"),
           hwhm |-> 0]}

\* SeeingProfileWidget.__init__: no profile stored, no settings written
InitWidget ==
    /\ TablesIdle
    /\ cam_call = Idle
    /\ night = Idle
    /\ fc = Idle
    /\ hw = Idle
    /\ widget = [rad_prof |-> <<>>, settings |-> <<>>, hwhm |-> 0,
                 clicks |-> 0, plots |-> 0, err |-> NoErr, changes |-> 0,
                 last |-> "none", prev |-> <<>>]
    /\ rp = Idle

\* the radii the user can enter in the aperture settings widget
ChangedRadii == {3, 8}

\* a mutant of UpdatePlots: the stored profile is replaced by another object
\* when the plots are redrawn
UpdatePlots_Replacing(w) ==
    IF w.rad_prof = <<>>
    THEN [w EXCEPT !.err = Raise("AttributeError", "unset", "rad_prof", "",
                                 "", "_update_plots")]
    ELSE [w EXCEPT !.err = NoErr, !.plots = @ + 1, !.rad_prof = <<0>>]

\* _update_plots, lines 704-711, as far as the stored profile goes: the
\* profile is read from self.rad_prof, which __init__ does not assign
UpdatePlots(w) ==
    IF w.rad_prof = <<>>
    THEN [w EXCEPT !.err = Raise("AttributeError", "unset", "rad_prof", "",
                                 "", "_update_plots")]
    ELSE [w EXCEPT !.err = NoErr, !.plots = @ + 1]

\* show_event with an event, lines 642-700: the profile of the clicked star
\* is built, stored, the settings are written (their observer redraws the
\* plots) and the plots are redrawn
ShowEvent ==
    /\ widget.clicks < MaxClicks
    /\ \E o \in ClickOutcomes :
          IF o.err # NoErr
          THEN widget' = [widget EXCEPT !.clicks = @ + 1, !.err = o.err,
                                        !.last = "click",
                                        !.prev = widget.rad_prof]
          ELSE widget' = UpdatePlots(UpdatePlots(
                   [widget EXCEPT
                      !.clicks = @ + 1,
                      !.last = "click",
                      !.prev = widget.rad_prof,
                      !.rad_prof = <<widget.clicks + 1>>,
                      !.hwhm = o.hwhm,
                      !.settings = <<[radius |-> ApertureRadius(o.hwhm),
                                      gap |-> 5,
                                      annulus_width |-> 15]>>]))
    /\ UNCHANGED <<table_vars, cam_call, night, fc, hw, rp>>

\* the user changes the value of the aperture settings widget: aperture_obs,
\* lines 572-581, the observer of that value, redraws the plots with
\* _update_plots; the stored profile is left as it is
ApertureChange ==
    /\ widget.changes < MaxChanges
    /\ \E r \in ChangedRadii :
          /\ widget.settings # <<[radius |-> r, gap |-> 5,
                                  annulus_width |-> 15]>>
          /\ widget' = UpdatePlots(
                 [widget EXCEPT !.changes = @ + 1,
                                !.last = "change",
                                !.prev = widget.rad_prof,
                                !.settings = <<[radius |-> r, gap |-> 5,
                                                annulus_width |-> 15]>>])
    /\ UNCHANGED <<table_vars, cam_call, night, fc, hw, rp>>

NextWidget == ShowEvent \/ ApertureChange

SpecWidget == InitWidget /\ [][NextWidget]_vars

\* the last event was a click that stored a profile and wrote the settings
Clicked == widget.last = "click" /\ widget.err = NoErr

\* C19 (amended): after a click on a star the radius written into the
\* aperture settings is the integer nearest to 3 * HWHM (1.5 times the
\* unrounded width 2 * HWHM), the even one when 3 * HWHM lies half-way
C19_RadiusIsRoundedThreeHwhm ==
    Clicked =>
       LET off == Abs(100 * widget.settings[1].radius - 3 * widget.hwhm)
       IN  /\ off <= 50
           /\ off = 50 => widget.settings[1].radius % 2 = 0

\* a click on a star whose 3 * HWHM is 4.5 has written the radius 4
C19_Witness ==
    /\ Clicked
    /\ widget.hwhm = 150
    /\ widget.settings[1].radius = 4

\* C19 (as stated): after a click on a star the radius written into the
\* aperture settings is round(1.5 * FWHM) with FWHM the integer
\* round(2 * HWHM)
C19_RadiusFromIntegerFWHM ==
    Clicked =>
       widget.settings[1].radius = NpRound(15 * FWHM(widget.hwhm), 10)

-----------------------------------------------------------------------------
(* radial_profile and the net counts of _update_plots *)
(*                                                                         *)
(* The cutout Cutout2D takes around the centre is given by its pixels: a   *)
(* function from <<xd, yd>> to the pixel value.  Radii are in hundredths   *)
(* of a pixel, rounded down.                                               *)

\* the largest r in lo..hi with r * r <= x
RECURSIVE FloorSqrtIn(_, _, _)
FloorSqrtIn(x, lo, hi) ==
    IF lo = hi THEN lo
    ELSE LET mid == (lo + hi + 1) \div 2
         IN  IF mid * mid <= x THEN FloorSqrtIn(x, mid, hi)
             ELSE FloorSqrtIn(x, lo, mid - 1)
FloorSqrt(x) == FloorSqrtIn(x, 0, x)

\* the sum of f over the finite set S
RECURSIVE SumOver(_, _)
SumOver(S, f) ==
    IF S = {} THEN 0
    ELSE LET e == CHOOSE e \in S : TRUE
         IN  f[e] + SumOver(S \ {e}, f)

\* a mutant of Cumsum: the entries themselves
Cumsum_PerBin(a) == a

\* np.cumsum
Cumsum(a) ==
    [k \in 1..Len(a) |-> SumOver(1..k, a)]

\* the pixels <<xd, yd>> of a cutout of the given size
PixelsOf(size) == (0..(size - 1)) \X (0..(size - 1))

\* r_exact of radial_profile, lines 206-211, for the pixel p: its distance
\* from sub_image.center_cutout, the geometric centre ((size - 1) / 2 on
\* both axes) of the cutout
RExact(p, size) ==
    LET c == 50 * (size - 1)
    IN  FloorSqrt((100 * p[1] - c) * (100 * p[1] - c)
                  + (100 * p[2] - c) * (100 * p[2] - c))

\* sizes of the cutout and values of its sky-subtracted pixels
ProfileSizes == {2, 3}
PixelValues == {-1, 0, 2}

\* r.astype(int), line 213, for the pixel p: its radial bin, the whole
\* pixels in its distance from the centre
RBin(p, size) ==
    LET c  == 50 * (size - 1)
        d2 == (100 * p[1] - c) * (100 * p[1] - c)
              + (100 * p[2] - c) * (100 * p[2] - c)
    IN  CHOOSE k \in 0..size :
           (100 * k) * (100 * k) <= d2 /\ d2 < (100 * (k + 1)) * (100 * (k + 1))

\* radial_profile with the averages returned whatever the flag
radial_profile_AlwaysMean(sub_data, size, return_scaled) ==
    LET P       == PixelsOf(size)
        r       == [p \in P |-> RBin(p, size)]
        nbins   == 1 + (CHOOSE m \in {r[p] : p \in P} : \A p \in P : r[p] <= m)
        InBin   == [k \in 1..nbins |-> {p \in P : r[p] = k - 1}]
    IN  [ravg |-> [k \in 1..nbins |->
                     <<SumOver(InBin[k], [p \in P |-> RExact(p, size)]),
                       Cardinality(InBin[k])>>],
         radialprofile |-> [k \in 1..nbins |->
                     <<SumOver(InBin[k], sub_data), Cardinality(InBin[k])>>]]

\* radial_profile(data, center, size, return_scaled), lines 206-227, on the
\* cutout sub_data: ravg and radialprofile as sequences over the bins (bin k
\* at index k + 1), each entry a quotient <<numerator, denominator>>
radial_profile(sub_data, size, return_scaled) ==
    LET P       == PixelsOf(size)
        r_exact == [p \in P |-> RExact(p, size)]
        r       == [p \in P |-> RBin(p, size)]
        nbins   == 1 + (CHOOSE m \in {r[p] : p \in P} : \A p \in P : r[p] <= m)
        InBin   == [k \in 1..nbins |-> {p \in P : r[p] = k - 1}]
        tbin    == [k \in 1..nbins |-> SumOver(InBin[k], sub_data)]
        rbin    == [k \in 1..nbins |-> SumOver(InBin[k], r_exact)]
        nr      == [k \in 1..nbins |-> Cardinality(InBin[k])]
    IN  IF return_scaled
        THEN [ravg |-> [k \in 1..nbins |-> <<rbin[k], nr[k]>>],
              radialprofile |-> [k \in 1..nbins |-> <<tbin[k], nr[k]>>]]
        ELSE [ravg |-> [k \in 1..nbins |-> <<rbin[k], 1>>],
              radialprofile |-> [k \in 1..nbins |-> <<tbin[k], 1>>]]

InitProfile ==
    /\ TablesIdle
    /\ cam_call = Idle
    /\ night = Idle
    /\ fc = Idle
    /\ hw = Idle
    /\ widget = Idle
    /\ \E size \in ProfileSizes :
          \E sub \in [PixelsOf(size) -> PixelValues] :
             rp = [pc |-> "call", size |-> size, sub_data |-> sub,
                   tbin2 |-> <<>>, counts |-> <<>>]

\* _update_plots, lines 741-750: tbin2 is the unscaled profile of the image
\* less new_sub_med, counts its cumulative sum
NetCounts ==
    /\ rp.pc = "call"
    /\ LET res   == radial_profile(rp.sub_data, rp.size, FALSE)
           tbin2 == [k \in 1..Len(res.radialprofile) |->
                       res.radialprofile[k][1]]
       IN  rp' = [rp EXCEPT !.pc = "done", !.tbin2 = tbin2,
                            !.counts = Cumsum(tbin2)]
    /\ UNCHANGED <<table_vars, cam_call, night, fc, hw, widget>>

NextProfile == NetCounts

SpecProfile == InitProfile /\ [][NextProfile]_vars

\* C20: when every sky-subtracted pixel of the cutout is non-negative, the
\* net counts do not decrease from one radial bin to the next
C20_NetCountsNonDecreasing ==
    (rp.pc = "done" /\ \A p \in PixelsOf(rp.size) : rp.sub_data[p] >= 0) =>
       \A k \in 1..(Len(rp.counts) - 1) : rp.counts[k] <= rp.counts[k + 1]

\* a cutout of non-negative pixels whose centre bin holds flux and whose
\* outer bin adds to it
C20_Witness ==
    /\ rp.pc = "done"
    /\ \A p \in PixelsOf(rp.size) : rp.sub_data[p] >= 0
    /\ Len(rp.counts) = 2
    /\ rp.counts[1] > 0
    /\ rp.counts[2] > rp.counts[1]
    /\ rp.tbin2[2] > rp.tbin2[1]

-----------------------------------------------------------------------------
(* the order of the checks of PhotometryData.__init__ *)

\* the error of the time-scale check and the count-unit check on the input
TimeOrCountsError ==
    IF CheckTime(args.data) # NoErr THEN CheckTime(args.data)
    ELSE CheckCounts(args.data)

\* C23: a PhotometryData input that violates the table description and also
\* the time-scale check or the count-unit consistency check (the columns
\* these two read being present) is refused with the error of the table
\* description
C23_SchemaErrorFirst ==
    ( /\ Finished
      /\ IsPhot
      /\ ~args.passband_map.isNone
      /\ CheckDescription(phot_descript, args.data, 1) # NoErr
      /\ TimeOrCountsError.type = "ValueError" )
    => err = CheckDescription(phot_descript, args.data, 1)

-----------------------------------------------------------------------------
(* BaseEnhancedTable constructed directly *)

\* the table_description arguments: a dict, or an object without items()
\* such as a list of pairs
Descriptions ==
    {[isDict |-> TRUE, items |-> catalog_descript],
     [isDict |-> TRUE, items |-> phot_descript],
     [isDict |-> FALSE, items |-> catalog_descript]}

\* the data arguments: an astropy Table, or another object such as a dict of
\* lists
DataArgs ==
    {[isTable |-> TRUE, tab |-> t] :
        t \in FaultyTables(catalog_descript, {"none"})
              \cup FaultyTables(phot_descript, {"utc"})}
    \cup {[isTable |-> FALSE,
           tab |-> InputTable(catalog_descript, TheRows, {}, {}, {}, "none")]}

InitBase ==
    /\ \E d \in Descriptions, x \in DataArgs :
          args = [cls |-> "BaseEnhancedTable", table_description |-> d,
                  data |-> x]
    /\ pc = "BET_descr"
    /\ err = NoErr
    /\ steps = <<>>
    /\ reads = [c \in {} |-> {}]
    /\ data = args.data.tab
    /\ orig_data = EmptyTable
    /\ self_built = FALSE
    /\ self_tab = EmptyTable
    /\ self_camera = 0
    /\ self_observatory = 0
    /\ self_passband_map = NoneMap
    /\ cameras = <<>>
    /\ observatories = <<>>
    /\ nmut = 0
    /\ ci = 1
    /\ shared = {}
    /\ round = 1
    /\ first_tab = EmptyTable
    /\ cam_call = Idle
    /\ night = Idle
    /\ fc = Idle
    /\ hw = Idle
    /\ widget = Idle
    /\ rp = Idle

\* lines 124-129: the description is copied with items(); without items()
\* the handler builds its message from self._table_description, which the
\* failed assignment has left unset, so that the read raises AttributeError
\* in place of the TypeError
BET_Description ==
    /\ pc = "BET_descr"
    /\ IF ~args.table_description.isDict
       THEN Raises(Raise("AttributeError", "unset", "", "", "",
                         "BET_descr"), "BET_descr")
       ELSE GoesOn("BET_data", "BET_descr")
    /\ UNCHANGED <<reads, args, data, orig_data, self_built, self_tab,
                   self_camera, self_observatory, self_passband_map, cameras,
                   observatories, nmut, ci, shared>>

\* lines 131-154: the type of data, then the description against the table
BET_Data ==
    /\ pc = "BET_data"
    /\ IF ~args.data.isTable
       THEN /\ Raises(Raise("TypeError", "not_table", "", "", "",
                            "BET_data"), "BET_data")
            /\ UNCHANGED <<self_built, self_tab, shared>>
       ELSE LET r == BaseEnhancedTable_init(args.table_description.items,
                                            data)
            IN  /\ IF r.err # NoErr THEN Raises(r.err, "BaseInit")
                   ELSE GoesOn("done", "BaseInit")
                /\ self_built' = r.built
                /\ self_tab' = r.tab
                /\ shared' = IF r.shares THEN shared \cup {"self"}
                             ELSE shared
    /\ UNCHANGED <<reads, args, data, orig_data, self_camera, self_observatory,
                   self_passband_map, cameras, observatories, nmut, ci>>

NextBase == BET_Description \/ BET_Data

SpecBase == InitBase /\ [][NextBase]_vars

\* C24: a BaseEnhancedTable construction whose table_description has no
\* items(), or whose data is not an astropy Table, ends with a TypeError and
\* without a table
C24_TypeErrorOnWrongArguments ==
    ( /\ Finished
      /\ \/ ~args.table_description.isDict
         \/ ~args.data.isTable )
    => /\ pc = "raised"
       /\ err.type = "TypeError"
       /\ ~self_built

-----------------------------------------------------------------------------
(* the stored profile of SeeingProfileWidget *)

C27_PlotsOnlyWithProfile ==
    ~(widget.err.type = "AttributeError" /\ widget.err.origin = "_update_plots")

-----------------------------------------------------------------------------
(* passband names mapped once *)

\* C28: after a construction with a passband_map the passband of every row
\* is the value the map gives for the passband the row had in the input, or
\* that passband itself when it is not a key of the map
C28_PassbandMappedOnce ==
    (pc = "done" /\ ~args.passband_map.isNone) =>
       LET items == args.passband_map.items
           was   == args.data.val["passband"]
           now   == self_tab.val["passband"]
       IN  \A r \in 1..Len(was) :
              IF \E i \in 1..Len(items) : items[i][1] = was[r]
              THEN \E i \in 1..Len(items) :
                      items[i][1] = was[r] /\ now[r] = items[i][2]
              ELSE now[r] = was[r]

-----------------------------------------------------------------------------
(* the bin before the half-maximum bin *)

\* C29: whenever find_hwhm returns, the bin before the first bin below one
\* half is the adjacent bin of lower radius, and the returned radius lies
\* between the average radii of these two bins
C29_PredecessorIsAdjacentLowerBin ==
    hw.pc = "returned" =>
       LET i == hw.result.half_index
           s == IF hw.result.den < 0 THEN -1 ELSE 1
       IN  /\ i >= 1
           /\ hw.result.den # 0
           /\ PyAt(hw.r, i - 1) * s * hw.result.den <= s * hw.result.num
           /\ s * hw.result.num <= PyAt(hw.r, i) * s * hw.result.den

-----------------------------------------------------------------------------
(* the cutout window of find_center *)

\* the initial guess is a pixel of the image
GuessInImage ==
    /\ fc.center_guess[1] \in 0..(fc.image.nx - 1)
    /\ fc.center_guess[2] \in 0..(fc.image.ny - 1)

\* C30: for an initial guess inside the image, the window
\* [x - pad, x + pad) x [y - pad, y + pad) of every cutout find_center
\* takes, the first included, lies inside the image
C30_WindowInsideImage ==
    (fc.pc # "call" /\ GuessInImage) =>
       /\ 0 <= fc.x - fc.pad
       /\ fc.x + fc.pad <= fc.image.nx
       /\ 0 <= fc.y - fc.pad
       /\ fc.y + fc.pad <= fc.image.ny

-----------------------------------------------------------------------------
(* the whole-hour offset of the night column *)

\* C22: the whole-hour offset used for the night column is the longitude in
\* degrees divided by 15 with the fraction dropped towards zero: it has the
\* sign of the longitude and its size is the largest whole number of 15
\* degree steps within the size of the longitude
C22_HrOffsetTruncates ==
    night.pc = "done" =>
       /\ night.hr_offset * night.lon >= 0
       /\ 15 * Abs(night.hr_offset) <= Abs(night.lon)
       /\ Abs(night.lon) < 15 * Abs(night.hr_offset) + 15

\* a western longitude that is not a multiple of 15: the offset is one hour
\* above the floor of the quotient
C22_Witness ==
    /\ night.pc = "done"
    /\ night.lon < 0
    /\ night.lon % 15 # 0
    /\ night.hr_offset = (night.lon \div 15) + 1

\* C22 as stated: the offset is the floor of longitude / 15 for every
\* longitude
C22_HrOffsetIsFloor ==
    night.pc = "done" => night.hr_offset = night.lon \div 15

-----------------------------------------------------------------------------
(* radial_profile called with either value of return_scaled *)

\* values of the pixels of the cutout
RadialPixelValues == {0, 2}

InitRadial ==
    /\ TablesIdle
    /\ cam_call = Idle
    /\ night = Idle
    /\ fc = Idle
    /\ hw = Idle
    /\ widget = Idle
    /\ \E size \in ProfileSizes, flag \in BOOLEAN :
          \E sub \in [PixelsOf(size) -> RadialPixelValues] :
             rp = [pc |-> "call", size |-> size, sub_data |-> sub,
                   return_scaled |-> flag, ravg |-> <<>>,
                   radialprofile |-> <<>>]

\* the call radial_profile(data, center, size, return_scaled)
RadialProfileCall ==
    /\ rp.pc = "call"
    /\ LET res == radial_profile(rp.sub_data, rp.size, rp.return_scaled)
       IN  rp' = [rp EXCEPT !.pc = "done", !.ravg = res.ravg,
                            !.radialprofile = res.radialprofile]
    /\ UNCHANGED <<table_vars, cam_call, night, fc, hw, widget>>

NextRadial == RadialProfileCall

SpecRadial == InitRadial /\ [][NextRadial]_vars

\* the pixels of the call's cutout that fall into bin k (index k + 1)
PixelsInBin(k) == {p \in PixelsOf(rp.size) : RBin(p, rp.size) = k - 1}

\* the sum of the exact radii of the pixels of bin k
SumOfRadii(k) ==
    SumOver(PixelsInBin(k), [p \in PixelsOf(rp.size) |-> RExact(p, rp.size)])

\* C21: with return_scaled true the radius radial_profile returns for a bin
\* is the sum of the exact radii of the bin's pixels divided by the number of
\* those pixels and the intensity is the bin's mean; with return_scaled false
\* both are the bin's raw sums, the radius as well as the intensity
C21_RavgFollowsFlag ==
    rp.pc = "done" =>
       \A k \in 1..Len(rp.ravg) :
          LET n == IF rp.return_scaled THEN Cardinality(PixelsInBin(k)) ELSE 1
          IN  /\ rp.ravg[k][1] * n = SumOfRadii(k) * rp.ravg[k][2]
              /\ rp.radialprofile[k][1] * n
                    = SumOver(PixelsInBin(k), rp.sub_data)
                      * rp.radialprofile[k][2]

\* an unscaled call on a cutout with a bin of several pixels
C21_Witness ==
    /\ rp.pc = "done"
    /\ ~rp.return_scaled
    /\ \E k \in 1..Len(rp.ravg) :
          /\ Cardinality(PixelsInBin(k)) > 1
          /\ SumOfRadii(k) > 0
          /\ rp.ravg[k] = <<SumOfRadii(k), 1>>

\* C21 as stated: for both values of return_scaled the radius of a bin is
\* the sum of the exact radii of the bin's pixels divided by their number
C21_RavgIsMeanRadius ==
    rp.pc = "done" =>
       \A k \in 1..Len(rp.ravg) :
          rp.ravg[k][1] * Cardinality(PixelsInBin(k))
             = SumOfRadii(k) * rp.ravg[k][2]

-----------------------------------------------------------------------------
(* RadialProfile.profile: the scaled profile and the scaled counts *)

\* the k-th smallest of the values of the pixels of the cutout
KthSmallest(sub_data, k) ==
    LET AtMost(v) == Cardinality({p \in DOMAIN sub_data : sub_data[p] <= v})
        Values    == {sub_data[p] : p \in DOMAIN sub_data}
    IN  CHOOSE v \in Values :
           /\ AtMost(v) >= k
           /\ \A w \in Values : w < v => AtMost(w) < k

\* twice np.median(self.sub_data), line 297: the middle value, or the mean
\* of the two middle values of a cutout with an even number of pixels
TwiceMedian(sub_data) ==
    LET n == Cardinality(DOMAIN sub_data)
    IN  IF n % 2 = 1 THEN 2 * KthSmallest(sub_data, (n + 1) \div 2)
        ELSE KthSmallest(sub_data, n \div 2)
             + KthSmallest(sub_data, n \div 2 + 1)

\* RadialProfile.profile, lines 292-300, on the cutout sub_data: with the
\* profile entries tbin / nr and the median med2 / 2, adjust_max is the
\* quotient <<amax, 2 * nr_m>> for the largest entry m of the profile, and
\* each scaled value is a quotient over adjust_max (a zero or negative
\* adjust_max is kept as the denominator it is)
profile(sub_data, size) ==
    LET res  == radial_profile(sub_data, size, TRUE).radialprofile
        med2 == TwiceMedian(sub_data)
        m    == CHOOSE k \in 1..Len(res) :
                   \A j \in 1..Len(res) :
                      res[k][1] * res[j][2] >= res[j][1] * res[k][2]
        amax == 2 * res[m][1] - med2 * res[m][2]
    IN  [adjust_max |-> <<amax, 2 * res[m][2]>>,
         scaled_profile |->
            [k \in 1..Len(res) |->
               <<(2 * res[k][1] - med2 * res[k][2]) * res[m][2],
                 res[k][2] * amax>>],
         scaled_exact_counts |->
            [p \in PixelsOf(size) |->
               <<(2 * sub_data[p] - med2) * res[m][2], amax>>]]

InitScaled ==
    /\ TablesIdle
    /\ cam_call = Idle
    /\ night = Idle
    /\ fc = Idle
    /\ hw = Idle
    /\ widget = Idle
    /\ \E size \in ProfileSizes :
          \E sub \in [PixelsOf(size) -> RadialPixelValues] :
             rp = [pc |-> "call", size |-> size, sub_data |-> sub,
                   adjust_max |-> <<0, 1>>, scaled_profile |-> <<>>,
                   scaled_exact_counts |-> <<>>]

\* the call rad_prof.profile(profile_size)
ProfileCall ==
    /\ rp.pc = "call"
    /\ LET res == profile(rp.sub_data, rp.size)
       IN  rp' = [rp EXCEPT !.pc = "done",
                            !.adjust_max = res.adjust_max,
                            !.scaled_profile = res.scaled_profile,
                            !.scaled_exact_counts = res.scaled_exact_counts]
    /\ UNCHANGED <<table_vars, cam_call, night, fc, hw, widget>>

NextScaled == ProfileCall

SpecScaled == InitScaled /\ [][NextScaled]_vars

\* C26: after profile on a cutout whose largest profile entry exceeds the
\* median of the cutout, scaled_profile has an entry equal to 1 and none
\* above 1, and no entry of scaled_exact_counts is above 1
C26_ScaledToMaximumOne ==
    (rp.pc = "done" /\ rp.adjust_max[1] > 0) =>
       /\ \E k \in 1..Len(rp.scaled_profile) :
             rp.scaled_profile[k][1] = rp.scaled_profile[k][2]
       /\ \A k \in 1..Len(rp.scaled_profile) :
             rp.scaled_profile[k][1] <= rp.scaled_profile[k][2]
       /\ \A p \in PixelsOf(rp.size) :
             rp.scaled_exact_counts[p][1] <= rp.scaled_exact_counts[p][2]

====
